---- MODULE Spec2Model ----
(***************************************************************************)
(* Model of scripts/bench_compare.py: the benchmark regression detector.   *)
(*                                                                         *)
(* A text line is the sequence of its space-separated tokens (the result   *)
(* of splitting on single blanks, so an empty token stands for one more    *)
(* blank), and a token is a sequence of one-character strings.  A dict is  *)
(* the sequence of its (key, value) items in insertion order.  A relative  *)
(* delta is the exact fraction <<numerator, denominator>> with a positive  *)
(* denominator; the float quotient of the source orders two such values    *)
(* the same way for every duration below 2^53 / 20.                        *)
(***************************************************************************)
EXTENDS Integers, Sequences, FiniteSets, TLC

VARIABLES pc, argc, opened, baseline, current, regressions, items, newnames,
          out, exit, err, plines, pidx, presults

vars == <<pc, argc, opened, baseline, current, regressions, items, newnames,
          out, exit, err, plines, pidx, presults>>

(***************************************************************************)
(* Bounds of the model.                                                    *)
(***************************************************************************)
MaxLines == 2
MaxArgc == 4

(***************************************************************************)
(* Characters, tokens and the text lines the two reports are drawn from.   *)
(***************************************************************************)
Digits == {"0", "1", "2", "3", "4", "5", "6", "7", "8", "9"}

DigitVal(c) ==
  CASE c = "0" -> 0 [] c = "1" -> 1 [] c = "2" -> 2 [] c = "3" -> 3
    [] c = "4" -> 4 [] c = "5" -> 5 [] c = "6" -> 6 [] c = "7" -> 7
    [] c = "8" -> 8 [] c = "9" -> 9

\* ord() of the characters benchmark names are made of
CodePoint(c) ==
  CASE c = "a" -> 97 [] c = "b" -> 98

tTest == <<"t", "e", "s", "t">>
tBench == <<"b", "e", "n", "c", "h", ":">>
tUnit == <<"n", "s", "/", "i", "t", "e", "r">>
tDots == <<".", ".", ".">>
tNoise == <<"(", "+", "/", "-">>

nA == <<"a">>
nAB == <<"a", "b">>
nB == <<"b">>

f0 == <<"0">>
f7 == <<"7">>
f950 == <<"9", "5", "0">>
f1000 == <<"1", ",", "0", "0", "0">>
f1100 == <<"1", ",", "1", "0", "0">>
f1101 == <<"1", ",", "1", "0", "1">>
f0300 == <<"0", "3", "0", "0">>
fComma == <<",">>
fDecimal == <<"1", ".", "5">>

\* "test <name> ... bench: <field> ns/iter (+/-"
BenchLine(name, field) == <<tTest, name, tDots, tBench, field, tUnit, tNoise>>

LineSet ==
  { BenchLine(nA, f) : f \in {f950, f1000, f1100, f1101} }
    \cup { BenchLine(nB, f) : f \in {f0, f1000, f1101} }
    \cup { <<tTest, <<>>, nAB, <<>>, tBench, <<>>, <<>>, f7, tUnit>>,
           <<tTest, nAB, tDots, tBench, f0300, tUnit, tBench, f7, tUnit>>,
           BenchLine(nAB, fComma),
           BenchLine(nB, fDecimal),
           <<tTest, nB, tBench, f7, tUnit>> }

Files == UNION { [1..n -> LineSet] : n \in 0..MaxLines }

(***************************************************************************)
(* re.match(r'^test\s+(\S+)\s+.*\s+bench:\s+([\d,]+)\s+ns/iter', line)     *)
(***************************************************************************)
\* index of the first non-empty token at or after i, 0 when there is none
RECURSIVE NextToken(_, _)
NextToken(line, i) ==
  IF i > Len(line) THEN 0
  ELSE IF line[i] # <<>> THEN i
  ELSE NextToken(line, i + 1)

HasPrefix(tok, p) ==
  /\ Len(tok) >= Len(p)
  /\ \A k \in 1..Len(p) : tok[k] = p[k]

\* the token is [\d,]+
IsField(tok) ==
  /\ Len(tok) > 0
  /\ \A k \in 1..Len(tok) : tok[k] \in Digits \cup {","}

\* bench:\s+([\d,]+)\s+ns/iter with "bench:" as token j
TailMatches(line, j) ==
  /\ line[j] = tBench
  /\ LET f == NextToken(line, j + 1)
     IN /\ f # 0
        /\ IsField(line[f])
        /\ LET u == NextToken(line, f + 1)
           IN u # 0 /\ HasPrefix(line[u], tUnit)

\* index of the name token, 0 when ^test\s+(\S+) does not match
NameIndex(line) ==
  IF Len(line) >= 2 /\ line[1] = tTest THEN NextToken(line, 2) ELSE 0

\* the positions the greedy .* can end before: at least two blanks after the name
BenchPositions(line) ==
  IF NameIndex(line) = 0 THEN {}
  ELSE { j \in (NameIndex(line) + 2)..Len(line) : TailMatches(line, j) }

Matches(line) == BenchPositions(line) # {}

SetMax(S) == CHOOSE x \in S : \A y \in S : y <= x

\* m.group(1)
Group1(line) == line[NameIndex(line)]

\* m.group(2): the greedy .* takes the last position that matches
Group2(line) == line[NextToken(line, SetMax(BenchPositions(line)) + 1)]

(***************************************************************************)
(* int(m.group(2).replace(',', ''))                                        *)
(***************************************************************************)
StripCommas(tok) == SelectSeq(tok, LAMBDA c : c # ",")

\* int() raises ValueError on the empty string
IntRaises(digits) == digits = <<>>

RECURSIVE IntOf(_)
IntOf(digits) ==
  IF digits = <<>> THEN 0
  ELSE 10 * IntOf(SubSeq(digits, 1, Len(digits) - 1)) + DigitVal(digits[Len(digits)])

(***************************************************************************)
(* dict                                                                    *)
(***************************************************************************)
Keys(d) == { d[k][1] : k \in 1..Len(d) }

Get(d, name) == d[CHOOSE k \in 1..Len(d) : d[k][1] = name][2]

\* d[name] = ns: an existing key keeps its place
DictSet(d, name, ns) ==
  IF name \in Keys(d)
  THEN [k \in 1..Len(d) |-> IF d[k][1] = name THEN <<name, ns>> ELSE d[k]]
  ELSE Append(d, <<name, ns>>)

(***************************************************************************)
(* parse_bencher                                                           *)
(***************************************************************************)
NoError == "none"
ValueError == "ValueError"

\* one iteration of the loop over the lines
ParseLine(r, line) ==
  IF r.err # NoError THEN r
  ELSE IF ~Matches(line) THEN r
  ELSE IF IntRaises(StripCommas(Group2(line)))
       THEN [err |-> ValueError, results |-> r.results]
  ELSE [err |-> NoError,
        results |-> DictSet(r.results, Group1(line), IntOf(StripCommas(Group2(line))))]

RECURSIVE ParseFrom(_, _, _)
ParseFrom(r, lines, i) ==
  IF i > Len(lines) THEN r
  ELSE ParseFrom(ParseLine(r, lines[i]), lines, i + 1)

parse_bencher(lines) ==
  ParseFrom([err |-> NoError, results |-> <<>>], lines, 1)

(***************************************************************************)
(* str and tuple comparison, sorted()                                      *)
(***************************************************************************)
RECURSIVE StrLess(_, _)
StrLess(s, t) ==
  IF t = <<>> THEN FALSE
  ELSE IF s = <<>> THEN TRUE
  ELSE IF CodePoint(Head(s)) # CodePoint(Head(t))
       THEN CodePoint(Head(s)) < CodePoint(Head(t))
  ELSE StrLess(Tail(s), Tail(t))

\* (name, ns) < (name2, ns2)
ItemLess(x, y) ==
  IF x[1] # y[1] THEN StrLess(x[1], y[1]) ELSE x[2] < y[2]

RECURSIVE InsertItem(_, _)
InsertItem(x, s) ==
  IF s = <<>> THEN <<x>>
  ELSE IF ItemLess(x, Head(s)) THEN <<x>> \o s
  ELSE <<Head(s)>> \o InsertItem(x, Tail(s))

\* mutant: the items in insertion order, as iterating the dict itself would give
InsertionOrderItems(d) == d

RECURSIVE SortedItems(_)
SortedItems(d) ==
  IF d = <<>> THEN <<>>
  ELSE InsertItem(Head(d), SortedItems(Tail(d)))

RECURSIVE SortedNames(_)
SortedNames(S) ==
  IF S = {} THEN <<>>
  ELSE LET least == CHOOSE x \in S : \A y \in S \ {x} : StrLess(x, y)
       IN <<least>> \o SortedNames(S \ {least})

\* mutant: every name of current, as forgetting the set difference would give
AllCurrentNames(base, curr) == SortedNames(Keys(curr))

\* sorted(set(current.keys()) - set(baseline.keys()))
NewNames(base, curr) == SortedNames(Keys(curr) \ Keys(base))

(***************************************************************************)
(* The relative delta and its classification                               *)
(***************************************************************************)
REGRESSION_THRESHOLD == <<1, 10>>
IMPROVEMENT_THRESHOLD == <<-1, 20>>

RatLess(p, q) == p[1] * q[2] < q[1] * p[2]

\* mutant: a zero baseline with a positive current counts as +100%
DeltaZeroAsFull(curr_ns, base_ns) ==
  IF base_ns > 0 THEN <<curr_ns - base_ns, base_ns>>
  ELSE IF curr_ns > 0 THEN <<1, 1>>
  ELSE <<0, 1>>

\* (curr_ns - base_ns) / base_ns if base_ns > 0 else 0
Delta(curr_ns, base_ns) ==
  IF base_ns > 0 THEN <<curr_ns - base_ns, base_ns>> ELSE <<0, 1>>

\* mutant: >= in place of >
IsRegressionOrEqual(delta) == ~RatLess(delta, REGRESSION_THRESHOLD)

IsRegression(delta) == RatLess(REGRESSION_THRESHOLD, delta)

IsFaster(delta) == RatLess(delta, IMPROVEMENT_THRESHOLD)

Marker(delta) ==
  IF IsRegression(delta) THEN "REGRESSION"
  ELSE IF IsFaster(delta) THEN "faster"
  ELSE ""

(***************************************************************************)
(* Lines of the report written to standard output                          *)
(***************************************************************************)
UsageLine == [kind |-> "usage"]
SkipLine == [kind |-> "skip"]
HeaderLines == <<[kind |-> "title"], [kind |-> "columns"], [kind |-> "rule"]>>
MissingRow(name, base_ns) == [kind |-> "missing", name |-> name, base |-> base_ns]
MatchedRow(name, base_ns, curr_ns, delta) ==
  [kind |-> "matched", name |-> name, base |-> base_ns, curr |-> curr_ns,
   delta |-> delta, marker |-> Marker(delta)]
NewRow(name, curr_ns) == [kind |-> "new", name |-> name, curr |-> curr_ns]
BlankLine == [kind |-> "blank"]
PassLine == [kind |-> "pass"]

\* mutant: the entries listed last to first
SummaryLinesReversed(regs) ==
  <<[kind |-> "failed", count |-> Len(regs)]>>
    \o [k \in 1..Len(regs) |->
          [kind |-> "regressed", name |-> regs[Len(regs) + 1 - k][1],
           delta |-> regs[Len(regs) + 1 - k][2]]]

\* the header with len(regressions), then one line per entry of the list
SummaryLines(regs) ==
  <<[kind |-> "failed", count |-> Len(regs)]>>
    \o [k \in 1..Len(regs) |->
          [kind |-> "regressed", name |-> regs[k][1], delta |-> regs[k][2]]]

(***************************************************************************)
(* main                                                                    *)
(***************************************************************************)
ExpectedArgc == 3

\* mutant: extra arguments accepted
ArgcAtLeast(n) == n >= ExpectedArgc

ArgcOk(n) == n = ExpectedArgc

Running == -1

Init ==
  /\ pc = "args"
  /\ argc \in 1..MaxArgc
  /\ opened = {}
  /\ baseline = <<>>
  /\ current = <<>>
  /\ regressions = <<>>
  /\ items = <<>>
  /\ newnames = <<>>
  /\ out = <<>>
  /\ exit = Running
  /\ err = NoError
  /\ plines = <<>>
  /\ pidx = 1
  /\ presults = <<>>

parsevars == <<plines, pidx, presults>>

\* len(sys.argv) != 3: the usage message and sys.exit(1)
UsageError ==
  /\ pc = "args"
  /\ ~ArgcOk(argc)
  /\ out' = Append(out, UsageLine)
  /\ exit' = 1
  /\ pc' = "exit"
  /\ UNCHANGED <<argc, opened, baseline, current, regressions, items, newnames,
                 err, parsevars>>

ArgsAccepted ==
  /\ pc = "args"
  /\ ArgcOk(argc)
  /\ pc' = "read_baseline"
  /\ UNCHANGED <<argc, opened, baseline, current, regressions, items, newnames,
                 out, exit, err, parsevars>>

\* open(sys.argv[1]); baseline = parse_bencher(f.readlines())
ReadBaseline ==
  /\ pc = "read_baseline"
  /\ \E lines \in Files :
       LET r == parse_bencher(lines)
       IN /\ opened' = opened \cup {"baseline"}
          /\ IF r.err = NoError
             THEN /\ baseline' = r.results
                  /\ pc' = "read_current"
                  /\ UNCHANGED <<exit, err>>
             ELSE /\ err' = r.err
                  /\ exit' = 1
                  /\ pc' = "exit"
                  /\ UNCHANGED baseline
  /\ UNCHANGED <<argc, current, regressions, items, newnames, out, parsevars>>

\* open(sys.argv[2]); current = parse_bencher(f.readlines())
ReadCurrent ==
  /\ pc = "read_current"
  /\ \E lines \in Files :
       LET r == parse_bencher(lines)
       IN /\ opened' = opened \cup {"current"}
          /\ IF r.err = NoError
             THEN /\ current' = r.results
                  /\ pc' = "check_baseline"
                  /\ UNCHANGED <<exit, err>>
             ELSE /\ err' = r.err
                  /\ exit' = 1
                  /\ pc' = "exit"
                  /\ UNCHANGED current
  /\ UNCHANGED <<argc, baseline, regressions, items, newnames, out, parsevars>>

\* if not baseline: the skip notice and sys.exit(0)
SkipComparison ==
  /\ pc = "check_baseline"
  /\ baseline = <<>>
  /\ out' = Append(out, SkipLine)
  /\ exit' = 0
  /\ pc' = "exit"
  /\ UNCHANGED <<argc, opened, baseline, current, regressions, items, newnames,
                 err, parsevars>>

\* regressions = [], the three header lines, and the sorted items of the loop
StartComparison ==
  /\ pc = "check_baseline"
  /\ baseline # <<>>
  /\ regressions' = <<>>
  /\ out' = out \o HeaderLines
  /\ items' = SortedItems(baseline)
  /\ pc' = "rows"
  /\ UNCHANGED <<argc, opened, baseline, current, newnames, exit, err, parsevars>>

\* one iteration of the loop over sorted(baseline.items()): name not in current
BaselineRowMissing ==
  /\ pc = "rows"
  /\ items # <<>>
  /\ LET name == Head(items)[1]
         base_ns == Head(items)[2]
     IN /\ name \notin Keys(current)
        /\ out' = Append(out, MissingRow(name, base_ns))
  /\ items' = Tail(items)
  /\ UNCHANGED <<pc, argc, opened, baseline, current, regressions, newnames,
                 exit, err, parsevars>>

\* one iteration of the loop over sorted(baseline.items()): name in current
BaselineRowMatched ==
  /\ pc = "rows"
  /\ items # <<>>
  /\ LET name == Head(items)[1]
         base_ns == Head(items)[2]
     IN /\ name \in Keys(current)
        /\ LET curr_ns == Get(current, name)
               delta == Delta(curr_ns, base_ns)
           IN /\ regressions' = IF IsRegression(delta)
                                THEN Append(regressions, <<name, delta>>)
                                ELSE regressions
              /\ out' = Append(out, MatchedRow(name, base_ns, curr_ns, delta))
  /\ items' = Tail(items)
  /\ UNCHANGED <<pc, argc, opened, baseline, current, newnames, exit, err,
                 parsevars>>

\* the first loop is over: the sorted names of the second loop
StartNew ==
  /\ pc = "rows"
  /\ items = <<>>
  /\ newnames' = NewNames(baseline, current)
  /\ pc' = "new"
  /\ UNCHANGED <<argc, opened, baseline, current, regressions, items, out,
                 exit, err, parsevars>>

\* one iteration of the loop over the new benchmarks
NewBenchmarkRow ==
  /\ pc = "new"
  /\ newnames # <<>>
  /\ out' = Append(out, NewRow(Head(newnames), Get(current, Head(newnames))))
  /\ newnames' = Tail(newnames)
  /\ UNCHANGED <<pc, argc, opened, baseline, current, regressions, items,
                 exit, err, parsevars>>

\* print(); regressions: the summary and sys.exit(1)
SummaryFail ==
  /\ pc = "new"
  /\ newnames = <<>>
  /\ regressions # <<>>
  /\ out' = Append(out, BlankLine) \o SummaryLines(regressions)
  /\ exit' = 1
  /\ pc' = "exit"
  /\ UNCHANGED <<argc, opened, baseline, current, regressions, items, newnames,
                 err, parsevars>>

\* print(); no regressions: main returns and the interpreter exits with 0
SummaryPass ==
  /\ pc = "new"
  /\ newnames = <<>>
  /\ regressions = <<>>
  /\ out' = Append(Append(out, BlankLine), PassLine)
  /\ exit' = 0
  /\ pc' = "exit"
  /\ UNCHANGED <<argc, opened, baseline, current, regressions, items, newnames,
                 err, parsevars>>

Next ==
  \/ UsageError
  \/ ArgsAccepted
  \/ ReadBaseline
  \/ ReadCurrent
  \/ SkipComparison
  \/ StartComparison
  \/ BaselineRowMissing
  \/ BaselineRowMatched
  \/ StartNew
  \/ NewBenchmarkRow
  \/ SummaryFail
  \/ SummaryPass

Spec == Init /\ [][Next]_vars

(***************************************************************************)
(* One call of parse_bencher, one loop iteration at a time                 *)
(***************************************************************************)
InitParse ==
  /\ pc = "parse_loop"
  /\ plines \in Files
  /\ pidx = 1
  /\ presults = <<>>
  /\ err = NoError
  /\ argc = ExpectedArgc
  /\ opened = {}
  /\ baseline = <<>>
  /\ current = <<>>
  /\ regressions = <<>>
  /\ items = <<>>
  /\ newnames = <<>>
  /\ out = <<>>
  /\ exit = Running

\* the body of the loop for lines[pidx]
ParseStep ==
  /\ pc = "parse_loop"
  /\ pidx <= Len(plines)
  /\ LET r == ParseLine([err |-> NoError, results |-> presults], plines[pidx])
     IN IF r.err = NoError
        THEN /\ presults' = r.results
             /\ pidx' = pidx + 1
             /\ UNCHANGED <<pc, err>>
        ELSE /\ err' = r.err
             /\ pc' = "parse_raised"
             /\ UNCHANGED <<presults, pidx>>
  /\ UNCHANGED <<plines, argc, opened, baseline, current, regressions, items,
                 newnames, out, exit>>

\* return results
ParseReturn ==
  /\ pc = "parse_loop"
  /\ pidx > Len(plines)
  /\ pc' = "parse_returned"
  /\ UNCHANGED <<plines, pidx, presults, err, argc, opened, baseline, current,
                 regressions, items, newnames, out, exit>>

NextParse == ParseStep \/ ParseReturn

SpecParse == InitParse /\ [][NextParse]_vars

(***************************************************************************)
(* Properties                                                              *)
(***************************************************************************)
IsRow(l) == l.kind \in {"matched", "missing", "new"}
Rows == SelectSeq(out, IsRow)
RowsOf(name) == { k \in 1..Len(Rows) : Rows[k].name = name }
RowsOfKind(kind) == { k \in 1..Len(Rows) : Rows[k].kind = kind }

\* both reports were parsed and main has terminated
ComparedAndExited == pc = "exit" /\ err = NoError /\ "current" \in opened

\* the classification of a matched pair, in integer arithmetic
Class(base_ns, curr_ns) ==
  IF 10 * (curr_ns - base_ns) > base_ns THEN "REGRESSION"
  ELSE IF 20 * (curr_ns - base_ns) < 0 - base_ns THEN "faster"
  ELSE ""

Common == Keys(baseline) \cap Keys(current)

SomeRegression ==
  \E name \in Common :
    /\ Get(baseline, name) > 0
    /\ 10 * (Get(current, name) - Get(baseline, name)) > Get(baseline, name)

\* s comes before t in code-point lexical order
LexBefore(s, t) ==
  \E k \in 1..(Len(t)) :
    /\ \A i \in 1..(k - 1) : i <= Len(s) /\ s[i] = t[i]
    /\ \/ k = Len(s) + 1
       \/ k <= Len(s) /\ CodePoint(s[k]) < CodePoint(t[k])

\* C1: main exits with 1 exactly when the argument count is wrong or some
\* benchmark of both reports has a relative delta above 0.10, and with 0 in
\* every other run.
C1_ExitStatus ==
  pc = "exit" =>
    /\ exit \in {0, 1}
    /\ exit = 1 <=> (argc # ExpectedArgc \/ SomeRegression)

\* C2: when the parsed baseline is empty, main prints the skip notice and
\* nothing else and exits with 0, whatever the current report holds.
C2_EmptyBaselineSkips ==
  (pc = "exit" /\ "current" \in opened /\ baseline = <<>>) =>
    (exit = 0 /\ out = <<SkipLine>>)

\* C3: every name of both reports with a positive baseline gets one matched
\* row, marked REGRESSION iff its delta is above 0.10, else faster iff its
\* delta is below -0.05, else unmarked; both comparisons are strict.
C3_Classification ==
  /\ \A k \in 1..Len(Rows) :
       (Rows[k].kind = "matched" /\ Rows[k].base > 0) =>
         /\ Rows[k].marker \in {"REGRESSION", "faster", ""}
         /\ Rows[k].marker = Class(Rows[k].base, Rows[k].curr)
         /\ Rows[k].base = Get(baseline, Rows[k].name)
         /\ Rows[k].curr = Get(current, Rows[k].name)
  /\ (pc = "new" \/ (ComparedAndExited /\ baseline # <<>>)) =>
       \A name \in Common :
         \E k \in RowsOf(name) : RowsOf(name) = {k} /\ Rows[k].kind = "matched"

C3_Witness ==
  /\ pc = "exit"
  /\ \E i, j \in 1..Len(Rows) :
       /\ Rows[i].kind = "matched" /\ Rows[i].base = 1000
       /\ Rows[i].curr = 1100 /\ Rows[i].marker = ""
       /\ Rows[j].kind = "matched" /\ Rows[j].base = 1000
       /\ Rows[j].curr = 1101 /\ Rows[j].marker = "REGRESSION"

\* every name of either report has exactly one row, of its own category
RowsCoverUnion ==
  /\ { Rows[k].name : k \in 1..Len(Rows) } = Keys(baseline) \cup Keys(current)
  /\ \A name \in Keys(baseline) \cup Keys(current) :
       \E k \in RowsOf(name) :
         /\ RowsOf(name) = {k}
         /\ Rows[k].kind =
              IF name \in Common THEN "matched"
              ELSE IF name \in Keys(baseline) THEN "missing"
              ELSE "new"

\* C4 as stated: for every pair of parsed reports the rows cover exactly the
\* union of the names, one row per name, of the name's category.
C4_RowsCoverUnionAlways == ComparedAndExited => RowsCoverUnion

\* C4 amended: for every pair of parsed reports with a non-empty baseline the
\* rows cover exactly the union of the names, one row per name, of the name's
\* category; with an empty baseline no row is emitted.
C4_RowsCoverUnion ==
  ComparedAndExited =>
    IF baseline = <<>> THEN Rows = <<>> ELSE RowsCoverUnion

C4_Witness ==
  /\ ComparedAndExited
  /\ RowsOfKind("matched") # {}
  /\ RowsOfKind("missing") # {}
  /\ RowsOfKind("new") # {}

\* C5: the rows of the baseline names come first, in strictly ascending
\* lexical order of name whatever their kind, then the rows of the new names,
\* in strictly ascending lexical order; the input order plays no part.
C5_RowOrder ==
  /\ \A i, j \in 1..Len(Rows) :
       i < j =>
         /\ Rows[i].kind = "new" => Rows[j].kind = "new"
         /\ (Rows[i].kind = "new" <=> Rows[j].kind = "new") =>
              LexBefore(Rows[i].name, Rows[j].name)
  /\ (ComparedAndExited /\ baseline # <<>>) =>
       /\ Len(Rows) = Cardinality(Keys(baseline) \cup Keys(current))
       /\ \A k \in 1..Len(Rows) :
            Rows[k].kind = "new" <=> Rows[k].name \notin Keys(baseline)

C5_Witness ==
  /\ ComparedAndExited
  /\ Len(baseline) = 2
  /\ LexBefore(baseline[2][1], baseline[1][1])
  /\ Len(Rows) = 3
  /\ Rows[1].kind = "matched" /\ Rows[2].kind = "missing" /\ Rows[3].kind = "new"

\* the indexes of the lines that carry a name and match
MatchingLines(lines, name) ==
  { k \in 1..Len(lines) : Matches(lines[k]) /\ Group1(lines[k]) = name }

\* C6: for every sequence of lines parse_bencher returns the mapping whose
\* keys are the names of the matching lines, each with the duration of the
\* last matching line that carries it.
C6_LastWins ==
  pc # "parse_loop" =>
    /\ pc = "parse_returned"
    /\ Keys(presults) =
         { Group1(plines[k]) : k \in { i \in 1..Len(plines) : Matches(plines[i]) } }
    /\ \A name \in Keys(presults) :
         Get(presults, name) =
           IntOf(StripCommas(Group2(plines[SetMax(MatchingLines(plines, name))])))

\* C7: parse_bencher never raises, whatever the lines are.
C7_NeverRaises == pc # "parse_raised" /\ err = NoError

\* C8: with a wrong argument count main prints the usage message and exits
\* with 1, having opened no file and printed nothing else.
C8_UsageError ==
  argc # ExpectedArgc =>
    /\ opened = {}
    /\ baseline = <<>> /\ current = <<>>
    /\ pc \in {"args", "exit"}
    /\ pc = "args" => out = <<>> /\ exit = Running
    /\ pc = "exit" => out = <<UsageLine>> /\ exit = 1

C8_Witness == pc = "exit" /\ argc = ExpectedArgc + 1 /\ out = <<UsageLine>>

IsRegressionRow(l) == l.kind = "matched" /\ l.marker = "REGRESSION"
IsSummaryItem(l) == l.kind = "regressed"
IsSummaryHeader(l) == l.kind = "failed"

\* C9: on FAIL the summary lists the rows marked REGRESSION, each once, with
\* the row's delta, in the order of the rows, under a header whose count is
\* the number of those rows; nothing else is listed.
C9_Summary ==
  LET marked == SelectSeq(out, IsRegressionRow)
      listed == SelectSeq(out, IsSummaryItem)
      headers == SelectSeq(out, IsSummaryHeader)
  IN /\ pc # "exit" => listed = <<>> /\ headers = <<>>
     /\ (pc = "exit" /\ marked = <<>>) => listed = <<>> /\ headers = <<>>
     /\ (pc = "exit" /\ marked # <<>>) =>
          /\ exit = 1
          /\ Len(headers) = 1
          /\ headers[1].count = Len(marked)
          /\ Len(listed) = Len(marked)
          /\ \A k \in 1..Len(marked) :
               /\ listed[k].name = marked[k].name
               /\ listed[k].delta = marked[k].delta
               /\ listed[k].delta = <<marked[k].curr - marked[k].base, marked[k].base>>

C9_Witness ==
  /\ pc = "exit"
  /\ Len(SelectSeq(out, IsSummaryItem)) = 2
  /\ RowsOfKind("matched") # {}

\* C10: a matched name with baseline 0 has delta 0, is unmarked and is never
\* recorded as a regression, whatever its current duration; a run whose only
\* slowdowns are on such names passes.
C10_ZeroBaseline ==
  /\ \A k \in 1..Len(Rows) :
       (Rows[k].kind = "matched" /\ Rows[k].base = 0) =>
         /\ Rows[k].delta = <<0, 1>>
         /\ Rows[k].marker = ""
         /\ \A i \in 1..Len(regressions) : regressions[i][1] # Rows[k].name
  /\ ( /\ ComparedAndExited
       /\ \A name \in Common :
            Get(current, name) > Get(baseline, name) => Get(baseline, name) = 0 )
       => exit = 0

C10_Witness ==
  /\ pc = "exit"
  /\ exit = 0
  /\ \E k \in 1..Len(Rows) :
       Rows[k].kind = "matched" /\ Rows[k].base = 0 /\ Rows[k].curr = 1101

====
